---- MODULE Spec2Model ----
(***************************************************************************)
(* Model of the request handlers of src/main.py (a Flask blog): the three  *)
(* tables User, BlogPost and Comment, the per-browser login session, and   *)
(* one action per route handler.  A handler that reaches the store more    *)
(* than once (register, show_post, edit_post, delete_post) is one step per *)
(* access, so that requests can interleave.  Spec follows the requests of  *)
(* one browser, which are serial; SpecConc runs the requests of two        *)
(* browsers concurrently; SpecAdmin runs the requests of two browsers that *)
(* are both logged in as the admin.                                        *)
(***************************************************************************)
EXTENDS Integers, FiniteSets, Sequences, TLC

VARIABLES
    users,      \* rows of table "users"       (main.py 36-44)
    posts,      \* rows of table "blog_posts"  (main.py 47-59)
    comments,   \* rows of table "comments"    (main.py 62-69)
    session,    \* per browser: the user id flask_login keeps, NULL if none
    today,      \* index into Days of the server's current date
    pending,    \* per browser: a request between its query and its commit
    resp        \* the last response sent, with the request it answers

vars == <<users, posts, comments, session, today, pending, resp>>

-----------------------------------------------------------------------------
(* Bounds of the model *)

MaxPosts == 2
MaxComments == 1

(* Program constants *)

ADMIN_ID == 1
NULL == 0

\* browsers (one cookie session each); Spec follows the requests of one
\* browser, because a handler reads and writes only its caller's session
Clients == {"c1", "c2"}
Callers == {"c1"}

Days == << [year |-> 2024, month |-> 12, day |-> 31],
           [year |-> 2025, month |-> 1,  day |-> 1] >>

Salts == {"s1"}

(* Form submissions: the data of the fields the handlers read *)

RegisterForms ==
    { [email |-> "a@x.com", password |-> "pw1", name |-> "Alice"],
      [email |-> "b@x.com", password |-> "pw2", name |-> "Bob"] }

LoginForms == [email : {"a@x.com", "b@x.com"}, password : {"pw1", "pw2"}]

\* what the fields of a form hold on a request that submits nothing
EmptyLogin == [email |-> "", password |-> ""]

Methods == {"GET", "POST"}

PostForms ==
    { [title |-> "T1", subtitle |-> "S1", img_url |-> "I1", body |-> "B1"],
      [title |-> "T2", subtitle |-> "S2", img_url |-> "I2", body |-> "B2"] }

\* the forms an edit submits: those of PostForms, and one that has the
\* title, image and body of the first and the subtitle of the second
EditForms ==
    PostForms \cup
        { [title |-> "T1", subtitle |-> "S2", img_url |-> "I1", body |-> "B1"] }

\* the registration of the first user, who gets id 1 and so is the admin,
\* and the login with the same credentials
AdminForm == [email |-> "a@x.com", password |-> "pw1", name |-> "Alice"]
AdminLogin == [email |-> AdminForm.email, password |-> AdminForm.password]

CommentTexts == {"nice post"}

PostIds == 1..MaxPosts

-----------------------------------------------------------------------------
(* Helpers *)

MaxOf(S) == IF S = {} THEN 0 ELSE CHOOSE x \in S : \A y \in S : y <= x

\* an Integer primary key left unset is assigned by the store on insert
NextId(rows) == MaxOf({r.id : r \in rows}) + 1

\* Query.get(id): the row with that primary key, or NULL
NoRow == [id |-> NULL]
QueryGet(rows, id) ==
    IF \E r \in rows : r.id = id THEN CHOOSE r \in rows : r.id = id ELSE NoRow

\* mutant: the existence query filters on the name column instead of email
UserByEmail_wrongColumn(email) ==
    IF \E u \in users : u.name = email
    THEN CHOOSE u \in users : u.name = email
    ELSE NoRow

\* User.query.filter_by(email=...).first()
UserByEmail(email) ==
    IF \E u \in users : u.email = email
    THEN CHOOSE u \in users : u.email = email
    ELSE NoRow

\* werkzeug: generate_password_hash(password, "pbkdf2:sha256", salt_length=8)
Digest(salt, password) == <<"pbkdf2:sha256", salt, password>>
generate_password_hash(password, salt) ==
    [salt |-> salt, digest |-> Digest(salt, password)]

\* mutant: the stored hash is tested for presence, not verified
check_password_hash_unverified(pwhash, password) == pwhash.digest # <<>>

check_password_hash(pwhash, password) ==
    pwhash.digest = Digest(pwhash.salt, password)

\* date.today().strftime("%B %d, %Y")
MonthName == << "January", "February", "March", "April", "May", "June", "July",
                "August", "September", "October", "November", "December" >>
strftime(d) == << MonthName[d.month], d.day \div 10, d.day % 10, d.year >>

\* mutant: every caller counts as authenticated
is_authenticated_always(c) == session[c] \in Nat

\* flask_login: current_user.is_authenticated, login_user, logout_user
is_authenticated(c) == session[c] # NULL
login_user(c, user) == [session EXCEPT ![c] = user.id]
logout_user(c) == [session EXCEPT ![c] = NULL]

\* flask_wtf: validate_on_submit() is TRUE for a submitting method whose
\* fields all validate (the validators are those of forms.py)
validate_on_submit(method, valid) == method = "POST" /\ valid

\* A response, with the request it answers: the handler, the browser and
\* the <int:post_id> of the route (NULL if it has none).
Request(h, c, id) == [handler |-> h, client |-> c, post_id |-> id]
Response(rq, kind, target, flash) ==
    [handler |-> rq.handler, client |-> rq.client, post_id |-> rq.post_id,
     kind |-> kind, target |-> target, flash |-> flash]
\* redirect(url_for(target)), after flash(...) if any
Redirect(rq, target, flash) == Response(rq, "redirect", target, flash)
\* render_template(template, ...), after flash(...) if any
Render(rq, template, flash) == Response(rq, "render", template, flash)
\* an exception no handler catches: the request ends in an error response
\* and the store session's pending changes are discarded
Fault(rq, error) == Response(rq, "fault", error, "")

\* a browser with no request between its query and its commit
Idle == [rq |-> Request("", "", NULL)]

-----------------------------------------------------------------------------
Init ==
    /\ users = {}
    /\ posts = {}
    /\ comments = {}
    /\ session = [c \in Clients |-> NULL]
    /\ today = 1
    /\ pending = [c \in Clients |-> Idle]
    /\ resp = Response(Request("", "", NULL), "", "", "")

\* mutant: the guard tests authentication only, not the id
admin_only_anyUser(c) == ~is_authenticated(c)

\* the guard of @admin_only: TRUE when the request is turned away
admin_only(c) == ~is_authenticated(c) \/ session[c] # ADMIN_ID

\* line 76: the wrapped handler is not called
Denied(rq) ==
    /\ resp' = Redirect(rq, "get_all_posts", "")
    /\ UNCHANGED <<users, posts, comments, session, today, pending>>

\* the store's UNIQUE constraint on users.email, checked at commit
EmailTaken(rows, email) == \E u \in rows : u.email = email

\* lines 102-107: the row register builds
NewUser(form, salt) ==
    [id |-> NextId(users), email |-> form.email,
     password |-> generate_password_hash(form.password, salt), name |-> form.name]

\* lines 108-111: add, commit, login_user, redirect
register_commit(c, rq, form, salt) ==
    IF EmailTaken(users, form.email)
    THEN /\ resp' = Fault(rq, "IntegrityError")
         /\ UNCHANGED <<users, session>>
    ELSE /\ users' = users \cup {NewUser(form, salt)}
         /\ session' = login_user(c, NewUser(form, salt))
         /\ resp' = Redirect(rq, "get_all_posts", "")

\* The register handler reaches the store twice: the query of line 98 and
\* the commit of line 109. Each request runs in its own worker (app.run,
\* line 223) and holds nothing in the store between the two, so another
\* request's commit can fall between them; the handler is therefore two
\* steps, with the request held in pending[c] in between.

\* lines 97-100: validate, query, and reject an email that is present
register_query(c, method, form, valid, salt) ==
    LET rq == Request("register", c, NULL) IN
    /\ pending[c] = Idle
    /\ IF ~validate_on_submit(method, valid)
       THEN /\ resp' = Render(rq, "register.html", "")
            /\ UNCHANGED pending
       ELSE IF UserByEmail(form.email) # NoRow
       THEN /\ resp' = Redirect(rq, "login",
                                "You've already sign up with that email, login instead")
            /\ UNCHANGED pending
       ELSE /\ pending' = [pending EXCEPT ![c] = [form |-> form, salt |-> salt, rq |-> rq]]
            /\ UNCHANGED resp
    /\ UNCHANGED <<users, posts, comments, session, today>>

\* lines 101-111 of a request that passed the query
register_insert(c) ==
    /\ pending[c].rq.handler = "register"
    /\ register_commit(c, pending[c].rq, pending[c].form, pending[c].salt)
    /\ pending' = [pending EXCEPT ![c] = Idle]
    /\ UNCHANGED <<posts, comments, today>>

\* line 121 tests the bound method validate_on_submit without calling it, so
\* the lookup runs for every request; a GET carries no form data
login(c, method, form) ==
    LET rq == Request("login", c, NULL)
        data == IF method = "POST" THEN form ELSE EmptyLogin
        user == UserByEmail(data.email)
    IN
    /\ pending[c] = Idle
    /\ IF user # NoRow
       THEN IF check_password_hash(user.password, data.password)
            THEN /\ session' = login_user(c, user)
                 /\ resp' = Redirect(rq, "get_all_posts", "")
            ELSE /\ resp' = Render(rq, "login.html", "Incorrect password")
                 /\ UNCHANGED session
       ELSE /\ resp' = Render(rq, "login.html", "")
            /\ UNCHANGED session
    /\ UNCHANGED <<users, posts, comments, today, pending>>

\* @login_required with no login_view configured answers 401 Unauthorized
logout(c, method) ==
    LET rq == Request("logout", c, NULL) IN
    /\ pending[c] = Idle
    /\ IF ~is_authenticated(c)
       THEN /\ resp' = Fault(rq, "Unauthorized")
            /\ UNCHANGED session
       ELSE /\ session' = logout_user(c)
            /\ resp' = Redirect(rq, "get_all_posts", "")
    /\ UNCHANGED <<users, posts, comments, today, pending>>

\* lines 149-152: the row show_post builds. parent_post=requested_post
\* gives it the id of the post read at line 145, or NULL when the query
\* found no post; the store assigns the comment's id at the insert.
NewComment(c, post, text) ==
    [text |-> text, author_id |-> session[c], post_id |-> post.id]

\* comment requests between their query and their commit
CommentsInFlight == {c \in Clients : pending[c].rq.handler = "show_post"}

\* show_post reaches the store at the query of line 145 and at the commit
\* of line 154, and like register it is two steps.
\* lines 145-152, and lines 155-158 of a request that writes nothing
show_post(c, post_id, method, valid, text) ==
    LET rq == Request("show_post", c, post_id)
        requested_post == QueryGet(posts, post_id)
    IN
    /\ pending[c] = Idle
    /\ IF validate_on_submit(method, valid)
       THEN IF is_authenticated(c)
            THEN /\ Cardinality(comments) + Cardinality(CommentsInFlight) < MaxComments
                 /\ pending' = [pending EXCEPT ![c] =
                        [rq |-> rq, new_comment |-> NewComment(c, requested_post, text)]]
                 /\ UNCHANGED resp
            ELSE /\ resp' = Redirect(rq, "login", "You need to login to comment")
                 /\ UNCHANGED pending
       ELSE /\ resp' = Render(rq, "post.html", "")
            /\ UNCHANGED pending
    /\ UNCHANGED <<users, posts, comments, session, today>>

\* the row the store inserts; the store is SQLite (line 30), which does not
\* enforce the foreign key, so post_id is written as it was read
InsertedComment(new_comment) ==
    [id |-> NextId(comments), text |-> new_comment.text,
     author_id |-> new_comment.author_id, post_id |-> new_comment.post_id]

\* lines 153-154 and 158 of a request that passed the checks
show_post_commit(c) ==
    /\ pending[c].rq.handler = "show_post"
    /\ comments' = comments \cup {InsertedComment(pending[c].new_comment)}
    /\ resp' = Render(pending[c].rq, "post.html", "")
    /\ pending' = [pending EXCEPT ![c] = Idle]
    /\ UNCHANGED <<users, posts, session, today>>

\* the store's UNIQUE constraint on blog_posts.title, checked at commit
TitleTaken(rows, title) == \E p \in rows : p.title = title

\* lines 178-185
NewPost(c, form) ==
    [id |-> NextId(posts), author_id |-> session[c], title |-> form.title,
     subtitle |-> form.subtitle, date |-> strftime(Days[today]),
     body |-> form.body, img_url |-> form.img_url]

add_new_post(c, method, form, valid) ==
    LET rq == Request("add_new_post", c, NULL) IN
    /\ pending[c] = Idle
    /\ IF admin_only(c) THEN Denied(rq)
       ELSE IF ~validate_on_submit(method, valid)
       THEN /\ resp' = Render(rq, "make-post.html", "")
            /\ UNCHANGED <<users, posts, comments, session, today, pending>>
       ELSE IF TitleTaken(posts, form.title)
       THEN /\ resp' = Fault(rq, "IntegrityError")
            /\ UNCHANGED <<users, posts, comments, session, today, pending>>
       ELSE /\ NextId(posts) <= MaxPosts
            /\ posts' = posts \cup {NewPost(c, form)}
            /\ resp' = Redirect(rq, "get_all_posts", "")
            /\ UNCHANGED <<users, comments, session, today, pending>>

\* mutant: the edit also stamps the post with the current date
EditedPost_redated(post, form) ==
    [post EXCEPT !.title = form.title, !.subtitle = form.subtitle,
                 !.img_url = form.img_url, !.body = form.body,
                 !.date = strftime(Days[today])]

\* lines 203-206: the four assignments of edit_post, on the object loaded at
\* line 195
EditedPost(post, form) ==
    [post EXCEPT !.title = form.title, !.subtitle = form.subtitle,
                 !.img_url = form.img_url, !.body = form.body]

\* the flush of the commit writes, to the row with the object's primary
\* key, the columns whose value differs from the value that was loaded
\* (UPDATE blog_posts SET <those columns> WHERE id = ?); the other columns
\* of the row stay as the store has them
Flushed(row, loaded, edited) ==
    [row EXCEPT
       !.author_id = IF edited.author_id # loaded.author_id THEN edited.author_id ELSE @,
       !.title     = IF edited.title # loaded.title THEN edited.title ELSE @,
       !.subtitle  = IF edited.subtitle # loaded.subtitle THEN edited.subtitle ELSE @,
       !.date      = IF edited.date # loaded.date THEN edited.date ELSE @,
       !.body      = IF edited.body # loaded.body THEN edited.body ELSE @,
       !.img_url   = IF edited.img_url # loaded.img_url THEN edited.img_url ELSE @]

\* edit_post reaches the store at the query of line 195, at the commit of
\* line 207 and again at line 208, where post.id reads the row once more
\* because the commit has expired the object. delete_post reaches it at
\* the query of line 216 and twice inside the commit of line 218: the flush
\* first reads the comments of the post and then writes. A request holds
\* nothing in the store between two of these, so each is a step of its
\* own, with what the request has read held in pending[c] in between.

\* lines 195-202, and line 210 of a request that writes nothing
edit_post(c, post_id, method, form, valid) ==
    LET rq == Request("edit_post", c, post_id)
        post == QueryGet(posts, post_id)
    IN
    /\ pending[c] = Idle
    /\ IF admin_only(c) THEN Denied(rq)
       ELSE IF post = NoRow
       THEN /\ resp' = Fault(rq, "AttributeError")
            /\ UNCHANGED <<users, posts, comments, session, today, pending>>
       ELSE IF ~validate_on_submit(method, valid)
       THEN /\ resp' = Render(rq, "make-post.html", "")
            /\ UNCHANGED <<users, posts, comments, session, today, pending>>
       ELSE /\ pending' = [pending EXCEPT ![c] =
                   [rq |-> rq, at |-> "loaded", post |-> post, form |-> form]]
            /\ UNCHANGED <<users, posts, comments, session, today, resp>>

\* a request of edit_post whose commit has succeeded
Committed(rq) == [rq |-> rq, at |-> "committed"]

\* lines 203-207 of a request that passed the checks. When no column has
\* changed the flush writes nothing. An UPDATE that matches no row raises
\* StaleDataError; one that gives the row the title of another row violates
\* the UNIQUE constraint.
edit_post_commit(c) ==
    LET rq == pending[c].rq
        loaded == pending[c].post
        edited == EditedPost(loaded, pending[c].form)
        row == QueryGet(posts, loaded.id)
    IN
    /\ pending[c].rq.handler = "edit_post"
    /\ pending[c].at = "loaded"
    /\ IF edited = loaded
       THEN /\ pending' = [pending EXCEPT ![c] = Committed(rq)]
            /\ UNCHANGED <<posts, resp>>
       ELSE IF row = NoRow
       THEN /\ resp' = Fault(rq, "StaleDataError")
            /\ pending' = [pending EXCEPT ![c] = Idle]
            /\ UNCHANGED posts
       ELSE IF edited.title # loaded.title /\ TitleTaken(posts \ {row}, edited.title)
       THEN /\ resp' = Fault(rq, "IntegrityError")
            /\ pending' = [pending EXCEPT ![c] = Idle]
            /\ UNCHANGED posts
       ELSE /\ posts' = (posts \ {row}) \cup {Flushed(row, loaded, edited)}
            /\ pending' = [pending EXCEPT ![c] = Committed(rq)]
            /\ UNCHANGED resp
    /\ UNCHANGED <<users, comments, session, today>>

\* line 208: the commit has expired the object, so post.id reads the row
\* with its primary key again and raises ObjectDeletedError if it is gone
edit_post_respond(c) ==
    LET rq == pending[c].rq IN
    /\ pending[c].rq.handler = "edit_post"
    /\ pending[c].at = "committed"
    /\ resp' = IF QueryGet(posts, rq.post_id) = NoRow
               THEN Fault(rq, "ObjectDeletedError")
               ELSE Redirect(rq, "show_post", "")
    /\ pending' = [pending EXCEPT ![c] = Idle]
    /\ UNCHANGED <<users, posts, comments, session, today>>

\* relationship("Comment", back_populates="parent_post") has no delete
\* cascade: to delete the post the flush reads the comments that reference
\* it (SELECT ... WHERE post_id = ?) ...
ChildComments(post) == {cm.id : cm \in {x \in comments : x.post_id = post.id}}

\* ... and sets post_id of each comment it has read to NULL (UPDATE comments
\* SET post_id = NULL WHERE id = ?), keeping the rows
CommentsAfterDelete(children) ==
    { IF cm.id \in children THEN [cm EXCEPT !.post_id = NULL] ELSE cm : cm \in comments }

\* lines 216-217; the route accepts GET only
delete_post(c, post_id) ==
    LET rq == Request("delete_post", c, post_id)
        post_to_delete == QueryGet(posts, post_id)
    IN
    /\ pending[c] = Idle
    /\ IF admin_only(c) THEN Denied(rq)
       ELSE IF post_to_delete = NoRow
       THEN /\ resp' = Fault(rq, "UnmappedInstanceError")
            /\ UNCHANGED <<users, posts, comments, session, today, pending>>
       ELSE /\ pending' = [pending EXCEPT ![c] =
                   [rq |-> rq, at |-> "loaded", post |-> post_to_delete]]
            /\ UNCHANGED <<users, posts, comments, session, today, resp>>

\* line 218, the first half of the flush: the comments of the post are read
delete_post_flush(c) ==
    /\ pending[c].rq.handler = "delete_post"
    /\ pending[c].at = "loaded"
    /\ pending' = [pending EXCEPT ![c] =
           [rq |-> pending[c].rq, at |-> "flushing", post |-> pending[c].post,
            children |-> ChildComments(pending[c].post)]]
    /\ UNCHANGED <<users, posts, comments, session, today, resp>>

\* lines 218-219, the second half of the flush and the commit: the UPDATE
\* of the comments read, then DELETE FROM blog_posts WHERE id = ?. A DELETE
\* that matches no row is a warning of the mapper, not an exception, so the
\* request redirects all the same.
delete_post_commit(c) ==
    LET post_to_delete == pending[c].post IN
    /\ pending[c].rq.handler = "delete_post"
    /\ pending[c].at = "flushing"
    /\ posts' = {p \in posts : p.id # post_to_delete.id}
    /\ comments' = CommentsAfterDelete(pending[c].children)
    /\ resp' = Redirect(pending[c].rq, "get_all_posts", "")
    /\ pending' = [pending EXCEPT ![c] = Idle]
    /\ UNCHANGED <<users, session, today>>

\* the server's date moves on
Tick ==
    /\ today < Len(Days)
    /\ today' = today + 1
    /\ UNCHANGED <<users, posts, comments, session, pending, resp>>

\* the requests a browser can send to a form route: a GET, a POST the form
\* rejects, or a POST that validates and carries one of the forms
Blank(Forms) == CHOOSE f \in Forms : TRUE
Submissions(Forms) ==
    { [method |-> "GET", valid |-> FALSE, form |-> Blank(Forms)],
      [method |-> "POST", valid |-> FALSE, form |-> Blank(Forms)] }
        \cup { [method |-> "POST", valid |-> TRUE, form |-> f] : f \in Forms }

\* the requests a browser can send to /login: a GET, or a POST of a form
LoginRequests ==
    { [method |-> "GET", form |-> EmptyLogin] }
        \cup { [method |-> "POST", form |-> f] : f \in LoginForms }

Next ==
    \/ \E c \in Callers, sb \in Submissions(RegisterForms), s \in Salts :
           register_query(c, sb.method, sb.form, sb.valid, s)
    \/ \E c \in Callers : register_insert(c)
    \/ \E c \in Callers, rq \in LoginRequests : login(c, rq.method, rq.form)
    \/ \E c \in Callers, m \in Methods : logout(c, m)
    \/ \E c \in Callers, id \in PostIds, sb \in Submissions(CommentTexts) :
           show_post(c, id, sb.method, sb.valid, sb.form)
    \/ \E c \in Callers : show_post_commit(c)
    \/ \E c \in Callers, sb \in Submissions(PostForms) :
           add_new_post(c, sb.method, sb.form, sb.valid)
    \/ \E c \in Callers, id \in PostIds, sb \in Submissions(PostForms) :
           edit_post(c, id, sb.method, sb.form, sb.valid)
    \/ \E c \in Callers : edit_post_commit(c)
    \/ \E c \in Callers : edit_post_respond(c)
    \/ \E c \in Callers, id \in PostIds : delete_post(c, id)
    \/ \E c \in Callers : delete_post_flush(c)
    \/ \E c \in Callers : delete_post_commit(c)
    \/ Tick

Spec == Init /\ [][Next]_vars

-----------------------------------------------------------------------------
(* Concurrent requests from two browsers: registration (which also logs   *)
(* the browser in), commenting, and the admin's creation and deletion of   *)
(* posts.                                                                  *)

NextConc ==
    \/ \E c \in Clients, sb \in Submissions(RegisterForms), s \in Salts :
           register_query(c, sb.method, sb.form, sb.valid, s)
    \/ \E c \in Clients : register_insert(c)
    \/ \E c \in Clients, id \in PostIds, sb \in Submissions(CommentTexts) :
           show_post(c, id, sb.method, sb.valid, sb.form)
    \/ \E c \in Clients : show_post_commit(c)
    \/ \E c \in Clients, sb \in Submissions(PostForms) :
           add_new_post(c, sb.method, sb.form, sb.valid)
    \/ \E c \in Clients, id \in PostIds : delete_post(c, id)
    \/ \E c \in Clients : delete_post_flush(c)
    \/ \E c \in Clients : delete_post_commit(c)

SpecConc == Init /\ [][NextConc]_vars

-----------------------------------------------------------------------------
(* Concurrent requests of the admin from two browsers: one registers as    *)
(* the first user, the other logs in with the same credentials, and both   *)
(* create, edit, delete and comment on posts while the date moves on.      *)

NextAdmin ==
    \/ \E c \in Clients, s \in Salts : register_query(c, "POST", AdminForm, TRUE, s)
    \/ \E c \in Clients : register_insert(c)
    \/ \E c \in Clients : login(c, "POST", AdminLogin)
    \/ \E c \in Clients, sb \in Submissions(PostForms) :
           add_new_post(c, sb.method, sb.form, sb.valid)
    \/ \E c \in Clients, id \in PostIds, sb \in Submissions(EditForms) :
           edit_post(c, id, sb.method, sb.form, sb.valid)
    \/ \E c \in Clients : edit_post_commit(c)
    \/ \E c \in Clients : edit_post_respond(c)
    \/ \E c \in Clients, id \in PostIds : delete_post(c, id)
    \/ \E c \in Clients : delete_post_flush(c)
    \/ \E c \in Clients : delete_post_commit(c)
    \/ \E c \in Clients, id \in PostIds, t \in CommentTexts :
           show_post(c, id, "POST", TRUE, t)
    \/ \E c \in Clients : show_post_commit(c)
    \/ Tick

SpecAdmin == Init /\ [][NextAdmin]_vars

-----------------------------------------------------------------------------
(* Claims *)

IsAdmin(c) == session[c] = ADMIN_ID

\* A response names the handler, the browser and the post id of the request
\* it answers, so a formula about a step of a handler takes these from resp'
\* and quantifies over the rest of the request.

\* C1: a request to add_new_post, edit_post or delete_post from a caller who
\* is unauthenticated or whose id is not 1 leaves the Post table (and the
\* other tables and the session) as it was and is answered with a redirect
\* to the post listing, whatever the method, the payload and its validity.
C1_NonAdminRejected ==
    [][resp'.handler \in {"add_new_post", "edit_post", "delete_post"} =>
       LET c == resp'.client  id == resp'.post_id IN
       \A m \in Methods, f \in PostForms, v \in BOOLEAN :
           (/\ ~IsAdmin(c)
            /\ \/ add_new_post(c, m, f, v)
               \/ edit_post(c, id, m, f, v)
               \/ delete_post(c, id))
           => /\ posts' = posts
              /\ comments' = comments
              /\ users' = users
              /\ session' = session
              /\ resp'.kind = "redirect"
              /\ resp'.target = "get_all_posts"]_vars

\* a non-admin's valid POST to add_new_post has just been turned away while
\* a logged-in non-admin user exists
C1_Witness ==
    /\ resp.handler \in {"add_new_post", "edit_post", "delete_post"}
    /\ resp.kind = "redirect"
    /\ session[resp.client] \notin {NULL, ADMIN_ID}
    /\ posts # {}

\* C2: a valid registration submission whose email is already in the User
\* table creates no User row, leaves the caller's session identity as it
\* was, and is answered (in the step of its query) with a redirect to the
\* login page, whatever other requests are in flight.
C2_DuplicateEmailRejected ==
    [][\A c \in Clients, f \in RegisterForms, s \in Salts :
         (/\ register_query(c, "POST", f, TRUE, s)
          /\ \E u \in users : u.email = f.email)
         => /\ users' = users
            /\ session' = session
            /\ pending'[c] = Idle
            /\ resp'.handler = "register"
            /\ resp'.client = c
            /\ resp'.kind = "redirect"
            /\ resp'.target = "login"]_vars

\* a browser has just been sent to the login page while the other browser's
\* registration is between its query and its commit
C2_Witness ==
    /\ resp.handler = "register"
    /\ resp.kind = "redirect"
    /\ resp.target = "login"
    /\ users # {}
    /\ \E c \in Clients : pending[c].rq.handler = "register"

\* C3: a valid registration submission whose email was not in the User
\* table when it was submitted (it passed the query and is held in pending)
\* adds, when it responds, exactly one User row with that email and name
\* and a fresh id, keeps every earlier row, and binds the caller's session
\* to the id of the new row.
C3_RegistrationCreatesAndLogsIn ==
    [][\A c \in Clients :
         (/\ pending[c].rq.handler = "register"
          /\ register_insert(c))
         => \E n \in users' :
              /\ n \notin users
              /\ users' = users \cup {n}
              /\ n.email = pending[c].form.email
              /\ n.name = pending[c].form.name
              /\ \A u \in users : u.id # n.id
              /\ session'[c] = n.id
              /\ resp'.kind = "redirect"]_vars

\* C4: a login attempt whose email matches a User and whose password does
\* not verify against that User's stored hash establishes no session (the
\* session is left as it was), raises the "Incorrect password" warning, and
\* re-renders the login form instead of redirecting.
C4_WrongPasswordNoSession ==
    [][resp'.handler = "login" =>
       (\A c \in Clients, f \in LoginForms :
           (/\ login(c, "POST", f)
            /\ \E u \in users :
                 /\ u.email = f.email
                 /\ u.password.digest # Digest(u.password.salt, f.password))
           => /\ session' = session
              /\ resp'.kind = "render"
              /\ resp'.target = "login.html"
              /\ resp'.flash = "Incorrect password")]_vars

\* an anonymous browser has just been refused with the warning
C4_Witness ==
    /\ resp.handler = "login"
    /\ resp.flash = "Incorrect password"
    /\ session[resp.client] = NULL
    /\ users # {}

\* C5 as stated: every comment submission (a POST to show_post, whether or
\* not the form validates) by an unauthenticated caller creates no Comment
\* row and is answered with a redirect to the login page.
C5_Original ==
    [][\A c \in Clients, id \in PostIds, v \in BOOLEAN, t \in CommentTexts :
         (/\ session[c] = NULL
          /\ show_post(c, id, "POST", v, t))
         => /\ comments' = comments
            /\ pending'[c] = Idle
            /\ resp'.handler = "show_post"
            /\ resp'.client = c
            /\ resp'.kind = "redirect"
            /\ resp'.target = "login"]_vars

\* C5 as amended: every comment submission that passes form validation and
\* is made by an unauthenticated caller creates no Comment row (none is
\* written in the step and none is left to be committed) and is answered
\* with a redirect to the login page; one that fails validation creates no
\* Comment row either.  No commit of a comment writes a row without author.
C5_AnonymousCommentRejected ==
    [][/\ \A c \in Clients, id \in PostIds, v \in BOOLEAN, t \in CommentTexts :
            (/\ session[c] = NULL
             /\ show_post(c, id, "POST", v, t))
            => /\ comments' = comments
               /\ pending'[c] = Idle
               /\ resp'.handler = "show_post"
               /\ resp'.client = c
               /\ v => /\ resp'.kind = "redirect"
                       /\ resp'.target = "login"
       /\ \A c \in Clients :
            show_post_commit(c) => \A cm \in comments' \ comments : cm.author_id # NULL]_vars

\* an anonymous POST to an existing post has just been sent to the login page
C5_Witness ==
    /\ resp.handler = "show_post"
    /\ resp.kind = "redirect"
    /\ resp.target = "login"
    /\ session[resp.client] = NULL
    /\ \E p \in posts : p.id = resp.post_id
    /\ CommentsInFlight # {}

\* C6: delete_post called by the admin with an id that is not in the Post
\* table does not end in an unhandled fault and leaves the Post and Comment
\* tables unchanged.
C6_DeleteMissingIsNoOp ==
    [][resp'.handler = "delete_post" =>
       (\A c \in Clients, id \in PostIds :
           (/\ delete_post(c, id)
            /\ IsAdmin(c)
            /\ ~ \E p \in posts : p.id = id)
           => /\ resp'.kind # "fault"
              /\ posts' = posts
              /\ comments' = comments)]_vars

\* C7: every Comment row's parent-post reference identifies exactly one row
\* of the Post table.
C7_CommentsHaveParent ==
    \A cm \in comments : Cardinality({p \in posts : p.id = cm.post_id}) = 1

\* C8: an edit_post by the admin changes only the Post with the requested
\* id, and of it only the title, subtitle, cover image URL and body, whatever
\* other requests committed since its lookup.  In the step of its commit no
\* Post row appears or disappears; the row with that id keeps its id, author
\* reference and date, and each of its four editable columns is either left
\* as the row has it or set to the submitted value (all four are the
\* submitted values when the commit goes through and the row is still as the
\* request read it); every other Post row, every User row and every Comment
\* row is unchanged.  The step that answers the request changes no row, and
\* answers with the redirect (the edit is successful) only if the Post is in
\* the table.
C8_EditFrame ==
    [][\A c \in Clients :
         /\ (/\ pending[c].rq.handler = "edit_post"
             /\ pending[c].at = "loaded"
             /\ IsAdmin(c)
             /\ edit_post_commit(c))
            => LET id == pending[c].rq.post_id
                   f == pending[c].form
               IN
               /\ users' = users
               /\ comments' = comments
               /\ {q \in posts' : q.id # id} = {p \in posts : p.id # id}
               /\ \A q \in posts' : q.id = id => \E p \in posts : p.id = id
               /\ \A p \in posts : p.id = id =>
                    \E q \in posts' :
                      /\ q.id = p.id
                      /\ q.author_id = p.author_id
                      /\ q.date = p.date
                      /\ q.title \in {p.title, f.title}
                      /\ q.subtitle \in {p.subtitle, f.subtitle}
                      /\ q.img_url \in {p.img_url, f.img_url}
                      /\ q.body \in {p.body, f.body}
                      /\ (pending'[c] # Idle /\ p = pending[c].post) =>
                           /\ q.title = f.title /\ q.subtitle = f.subtitle
                           /\ q.img_url = f.img_url /\ q.body = f.body
         /\ (/\ pending[c].rq.handler = "edit_post"
             /\ pending[c].at = "committed"
             /\ edit_post_respond(c))
            => /\ users' = users
               /\ posts' = posts
               /\ comments' = comments
               /\ resp'.kind = "redirect" =>
                    \E p \in posts : p.id = pending[c].rq.post_id]_vars

\* an edit has just succeeded on a later day than its post was written,
\* with another post and a comment in the store, while the other browser's
\* edit of the same post, which read the row before this edit changed it,
\* is between its lookup and its commit
C8_Witness ==
    /\ resp.handler = "edit_post"
    /\ resp.kind = "redirect"
    /\ today = 2
    /\ \E p \in posts : p.id = resp.post_id /\ p.date = strftime(Days[1])
    /\ Cardinality(posts) = 2
    /\ comments # {}
    /\ \E c \in Clients :
         /\ pending[c].rq.handler = "edit_post"
         /\ pending[c].rq.post_id = resp.post_id
         /\ pending[c].at = "loaded"
         /\ pending[c].post \notin posts

\* C9: add_new_post, or edit_post on a post, submitted by the admin with
\* the title of another Post in the store is aborted before any write and
\* surfaced as a warning: no unhandled fault, and the Post table unchanged.
\* (A commit of edit_post that fails answers the request in its own step.)
C9_DuplicateTitleWarned ==
    [][resp'.handler \in {"add_new_post", "edit_post"} =>
       (\A c \in Clients :
           (/\ IsAdmin(c)
            /\ \/ \E f \in PostForms :
                    /\ add_new_post(c, "POST", f, TRUE)
                    /\ \E p \in posts : p.title = f.title
               \/ /\ pending[c].rq.handler = "edit_post"
                  /\ pending[c].at = "loaded"
                  /\ edit_post_commit(c)
                  /\ \E p \in posts : p.id = pending[c].rq.post_id
                  /\ \E p \in posts : /\ p.id # pending[c].rq.post_id
                                      /\ p.title = pending[c].form.title)
           => /\ resp'.kind # "fault"
              /\ resp'.flash # ""
              /\ posts' = posts)]_vars

\* C10: under every interleaving of register requests, none inserts a User
\* row whose email is in the User table at the moment of the insert: no two
\* User rows share an email and no registration ends in a uniqueness fault.
C10_NoDuplicateInsert ==
    /\ \A u, w \in users : u.email = w.email => u = w
    /\ ~(resp.handler = "register" /\ resp.kind = "fault")

====
